---- MODULE Spec2Model ----
(***************************************************************************)
(* Model of pysat's Meta / MetaLabels (src/pysat/_meta.py) and of its      *)
(* settings store Parameters (src/pysat/_params.py).                       *)
(*                                                                         *)
(* A Meta object is modelled by a record                                   *)
(*   index   : the row labels of the DataFrame _data, in order             *)
(*   columns : the column labels of _data, in order                        *)
(*   data    : data[row][column], the cell values                          *)
(*   hoKeys  : the keys of the dict _ho_data, in insertion order           *)
(*   ho      : ho[key], the nested Meta object                             *)
(*   labels  : the MetaLabels object (roles, label_type, label strings)    *)
(* mutable is the flag self.mutable of the object, custom the instance     *)
(* attributes assigned to it from outside.                                 *)
(* Every operation is an operator from containers to a record              *)
(*   [m |-> container afterwards, err |-> "" or the exception raised, ...] *)
(* so that the effects an operation leaves behind when it raises are part  *)
(* of the model.                                                           *)
(***************************************************************************)
EXTENDS Integers, Sequences, FiniteSets, TLC

VARIABLES meta, last, mutable, custom, params, settings_file, file_lock

vars == <<meta, last, mutable, custom, params, settings_file, file_lock>>

\* the Meta object and the call in progress on it
metaVars == <<meta, last, mutable, custom>>

\* the settings store: the Parameters instance of each process, the content
\* of the settings file, and the holder of the lock on the file
paramVars == <<params, settings_file, file_lock>>

\* the state of the object outside its table: the flag self.mutable and the
\* instance attributes a user has assigned, as a set of <<name, value>>
attrVars == <<mutable, custom>>

----------------------------------------------------------------------------
(* Bounds *)

\* longest list of names handed to set / drop / keep
MaxNamesLen == 2

\* longest list of values handed to set for one attribute
MaxValsLen == 2

----------------------------------------------------------------------------
(* Sequence helpers *)

Range(s) == {s[i] : i \in 1..Len(s)}

SeqsUpTo(S, n) == UNION {[1..k -> S] : k \in 0..n}

\* F applied to the value of v: v is evaluated once, whatever the number of
\* places F uses it in
Eval(F(_), v) == CHOOSE r \in {F(x) : x \in {v}} : TRUE

\* s without the elements that are in the set D, order kept
Without(s, D) == SelectSeq(s, LAMBDA x : x \notin D)

\* s followed by the elements of t that are not yet present, order kept
AppendNew(s, t) ==
    LET fresh == SelectSeq([i \in 1..Len(t) |-> i],
                           LAMBDA i : /\ t[i] \notin Range(s)
                                      /\ \A j \in 1..(i-1) : t[j] # t[i])
    IN  s \o [k \in 1..Len(fresh) |-> t[fresh[k]]]

----------------------------------------------------------------------------
(* Strings.  str.lower() on the strings that occur in the model. *)

Lower(s) ==
    CASE s = "TEMP"  -> "temp"
      [] s = "V"     -> "v"
      [] s = "X"     -> "x"
      [] s = "UNITS" -> "units"
      [] OTHER       -> s

\* variable names the operations are called with
VarNames == {"temp", "TEMP", "v"}

----------------------------------------------------------------------------
(* Values stored in cells: every value is a pair <<type tag, text>> *)

Str(s)  == <<"str", s>>
Bool(b) == <<"bool", IF b THEN "True" ELSE "False">>
NaN     == <<"float", "nan">>
None    == <<"NoneType", "None">>
IntV(s) == <<"int", s>>

----------------------------------------------------------------------------
(* MetaLabels *)

\* MetaLabels.default_values_from_type: issubclass(val_type, str) selects
\* the string default; the float and int branches test
\* isinstance(val_type, float) and isinstance(val_type, int) on the type
\* object itself, which is false for every type, so they are never taken.
IsSubclassOfStr(val_type) == val_type = "str"

IsInstanceOfFloat(val_type) == FALSE

IsInstanceOfInt(val_type) == FALSE

default_values_from_type(val_type) ==
    IF IsSubclassOfStr(val_type) THEN Str("")
    ELSE IF IsInstanceOfFloat(val_type) THEN NaN
    ELSE IF IsInstanceOfInt(val_type) THEN IntV("-1")
    ELSE None

\* the value types a label can be declared with
ValTypes == {"str", "float", "int", "bool"}

\* the labels argument of Meta.__init__: role |-> <<label string, type>>,
\* in the order of the dict
MetaDefaultLabels ==
    << <<"units", "units", "str">>,     <<"name", "long_name", "str">>,
       <<"notes", "notes", "str">>,     <<"desc", "desc", "str">>,
       <<"plot", "plot_label", "str">>, <<"axis", "axis", "str">>,
       <<"scale", "scale", "str">>,     <<"min_val", "value_min", "float">>,
       <<"max_val", "value_max", "float">>, <<"fill_val", "fill", "float">> >>

\* a custom role handed to MetaLabels through **kwargs
CustomIntLabel == <<"count", "count", "int">>

\* MetaLabels.__init__: label_type[role] = type, and one attribute per role
\* holding the label string; roles keeps the order of label_type.keys()
MetaLabelsInit(lbls) ==
    LET Roles == {lbls[i][1] : i \in 1..Len(lbls)}
        Of(r) == lbls[CHOOSE i \in 1..Len(lbls) : lbls[i][1] = r]
    IN  [roles      |-> [i \in 1..Len(lbls) |-> lbls[i][1]],
         label_type |-> [r \in Roles |-> Of(r)[3]],
         attr       |-> [r \in Roles |-> Of(r)[2]]]

\* MetaLabels.default_values_from_attr
default_values_from_attr(labels, attr_name) ==
    IF attr_name \notin DOMAIN labels.label_type
    THEN [err |-> "ValueError", val |-> None]
    ELSE IF attr_name = "scale"
         THEN [err |-> "", val |-> Str("linear")]
         ELSE [err |-> "",
               val |-> default_values_from_type(labels.label_type[attr_name])]

\* dir(self.labels): the sorted names of everything reachable on the
\* MetaLabels instance: the interpreter's object attributes (represented by
\* the two that every interpreter version has first and last), the methods,
\* label_type and one attribute per role.  The custom role sorts between
\* axis and default_values_from_attr.
DirLabels(labels) ==
    <<"__class__", "__weakref__", "axis">>
    \o (IF "count" \in DOMAIN labels.label_type THEN <<"count">> ELSE <<>>)
    \o <<"default_values_from_attr", "default_values_from_type", "desc",
         "fill_val", "label_type", "max_val", "min_val", "name", "notes",
         "plot", "scale", "units">>

----------------------------------------------------------------------------
(* Meta: construction *)

\* Meta.__init__(metadata=None, labels): columns are the names in
\* dir(self.labels) (none of them is callable, they are strings), no rows,
\* no higher order data
MetaInit(lbls) ==
    LET labels == MetaLabelsInit(lbls)
    IN  [index   |-> <<>>,
         columns |-> DirLabels(labels),
         data    |-> <<>>,
         hoKeys  |-> <<>>,
         ho      |-> <<>>,
         labels  |-> labels]

\* Meta.__init__(metadata=frame) for a DataFrame that has the rows idx and
\* no columns: the frame is accepted as it is
MetaFromFrame(idx) ==
    [index   |-> idx,
     columns |-> <<>>,
     data    |-> [n \in Range(idx) |-> <<>>],
     hoKeys  |-> <<>>,
     ho      |-> <<>>,
     labels  |-> MetaLabelsInit(MetaDefaultLabels)]

----------------------------------------------------------------------------
(* Meta: names *)

keys(m) == m.index

keys_nD(m) == m.hoKeys

\* the stored names of an object, flat rows and nested entries
StoredNames(m) == Range(keys(m)) \cup Range(keys_nD(m))

\* Meta.attrs: a generator over data.columns whose body yields the name
\* dco, which is bound nowhere: the first iteration raises NameError.  With
\* no column there is no iteration and nothing is raised.
attrs(m) ==
    IF m.columns = <<>>
    THEN [err |-> "", names |-> <<>>]
    ELSE [err |-> "NameError", names |-> <<>>]

\* Meta.__contains__
contains(m, other) ==
    \/ Lower(other) \in {Lower(k) : k \in Range(keys(m))}
    \/ Lower(other) \in {Lower(k) : k \in Range(keys_nD(m))}

\* first element of names equal to lower_name under str.lower, as a
\* sequence of at most one element
FirstMatch(names, lower_name) ==
    LET Hit == {i \in 1..Len(names) : Lower(names[i]) = lower_name}
    IN  IF Hit = {} THEN <<>>
        ELSE <<names[CHOOSE i \in Hit : \A j \in Hit : i <= j]>>

\* Meta.var_case_name
var_case_name(m, name) ==
    LET lower_name == Lower(name)
        flat       == FirstMatch(keys(m), lower_name)
        nested     == FirstMatch(keys_nD(m), lower_name)
    IN  IF contains(m, name)
        THEN IF flat # <<>> THEN flat[1] ELSE nested[1]
        ELSE name

\* Meta.copy: a deep copy; the model's containers are values
copy(m) == m

\* Meta.__getitem__ for a single variable name (a str key).  data.loc
\* raises KeyError for a label that is not in the index.
GetItem(m, key) ==
    IF contains(m, key)
    THEN Eval(LAMBDA new_key :
                IF new_key \notin Range(m.index)
                THEN [err |-> "KeyError", row |-> <<>>, children |-> <<>>]
                ELSE [err      |-> "",
                      row      |-> m.data[new_key],
                      children |-> IF new_key \in Range(keys_nD(m))
                                   THEN <<copy(m.ho[new_key])>>
                                   ELSE <<>>],
              var_case_name(m, key))
    ELSE [err |-> "KeyError", row |-> <<>>, children |-> <<>>]

\* the loop of Meta.attr_case_name over keys_nD(), from position i on:
\* self[key] may raise, and so may attrs() of the nested object; when
\* self[key] finds the row under another casing than the nested entry's,
\* its children is None, which has no attrs
RECURSIVE AttrCaseNested(_, _, _)
AttrCaseNested(m, name, i) ==
    IF i > Len(keys_nD(m)) THEN [err |-> "", name |-> name]
    ELSE Eval(LAMBDA got :
                IF got.err # "" THEN [err |-> got.err, name |-> name]
                ELSE IF got.children = <<>>
                THEN [err |-> "AttributeError", name |-> name]
                ELSE LET sub == attrs(got.children[1])
                         hit == FirstMatch(sub.names, Lower(name))
                     IN  IF sub.err # "" THEN [err |-> sub.err, name |-> name]
                         ELSE IF hit # <<>> THEN [err |-> "", name |-> hit[1]]
                         ELSE AttrCaseNested(m, name, i + 1),
              GetItem(m, keys_nD(m)[i]))

\* Meta.attr_case_name
attr_case_name(m, name) ==
    LET own == attrs(m)
        hit == FirstMatch(own.names, Lower(name))
    IN  IF own.err # "" THEN [err |-> own.err, name |-> name]
        ELSE IF hit # <<>> THEN [err |-> "", name |-> hit[1]]
        ELSE AttrCaseNested(m, name, 1)

----------------------------------------------------------------------------
(* Meta: the table *)

\* _data.loc[row, cols] = vals: the row and the columns that are missing
\* are added, cells that were never assigned hold NaN
LocSetRow(m, row, cols, vals, index, columns) ==
    LET Last(c) == CHOOSE i \in 1..Len(cols) :
                      cols[i] = c /\ \A j \in (i+1)..Len(cols) : cols[j] # c
    IN  [m EXCEPT
           !.index   = index,
           !.columns = columns,
           !.data    = [n \in Range(index) |-> [c \in Range(columns) |->
                          IF n = row /\ c \in Range(cols) THEN vals[Last(c)]
                          ELSE IF n \in Range(m.index) /\ c \in Range(m.columns)
                               THEN m.data[n][c]
                               ELSE NaN]]]

LocSet(m, row, cols, vals) ==
    Eval(LAMBDA a :
           LocSetRow(a[1], row, a[2], a[3],
                     IF row \in Range(a[1].index) THEN a[1].index
                     ELSE Append(a[1].index, row),
                     AppendNew(a[1].columns, a[2])),
         <<m, cols, vals>>)

\* _data.drop(names, axis=0): KeyError when a name is not a row label
DropRows(m, names) ==
    IF \E i \in 1..Len(names) : names[i] \notin Range(m.index)
    THEN [err |-> "KeyError", m |-> m]
    ELSE LET index == Without(m.index, Range(names))
         IN  [err |-> "",
              m   |-> [m EXCEPT !.index = index,
                                !.data  = [n \in Range(index) |-> m.data[n]]]]

\* Meta._insert_default_values
_insert_default_values(m, data_var) ==
    LET roles        == m.labels.roles
        labels       == [i \in 1..Len(roles) |-> m.labels.attr[roles[i]]]
        default_vals == [i \in 1..Len(roles) |->
                           default_values_from_attr(m.labels, roles[i]).val]
    IN  LocSet(m, data_var, labels, default_vals)

\* Meta.__setitem__, dict branch, the loop that inserts the default rows:
\* for name in names: if name not in self: self._insert_default_values(name)
RECURSIVE InsertDefaults(_, _)
InsertDefaults(m, names) ==
    IF names = <<>> THEN m
    ELSE Eval(LAMBDA next : InsertDefaults(next, Tail(names)),
              IF contains(m, Head(names)) THEN m
              ELSE _insert_default_values(m, Head(names)))

\* Meta.__setitem__, dict branch, up to the default rows: the names are
\* replaced by the stored casing, all of them before any row is inserted
ResolveAndDefault(m, names) ==
    LET resolved == [i \in 1..Len(names) |-> var_case_name(m, names[i])]
    IN  [names |-> resolved, m |-> InsertDefaults(m, resolved)]

\* self[name] = {}: the dict branch with an empty dict; nothing is left to
\* check or assign after the default rows
SetItemEmpty(m, name) == ResolveAndDefault(m, <<name>>).m

----------------------------------------------------------------------------
(* Meta.__setitem__ *)

\* Meta.empty: DataFrame.empty holds when the frame has no row or no column
empty(m) == m.index = <<>> \/ m.columns = <<>>

\* Meta.accept_default_labels
accept_default_labels(m, other) == [m EXCEPT !.labels = other.labels]

\* input_data.data.index = [self.var_case_name(name) for name in index]
RenameIndex(m, input_data) ==
    LET new_names == [i \in 1..Len(input_data.index) |->
                        var_case_name(m, input_data.index[i])]
        Old(n)    == input_data.index[CHOOSE i \in 1..Len(new_names) :
                        new_names[i] = n /\ \A j \in 1..(i-1) : new_names[j] # n]
    IN  [input_data EXCEPT
           !.index = new_names,
           !.data  = [n \in Range(new_names) |-> input_data.data[Old(n)]]]

\* input_data.data.columns = new_names
RenameColumns(input_data, new_names) ==
    LET Old(c) == input_data.columns[CHOOSE i \in 1..Len(new_names) :
                        new_names[i] = c /\ \A j \in 1..(i-1) : new_names[j] # c]
    IN  [input_data EXCEPT
           !.columns = new_names,
           !.data    = [n \in Range(input_data.index) |->
                          [c \in Range(new_names) |-> input_data.data[n][Old(c)]]]]

\* Meta.__setitem__, branch isinstance(input_data, Meta); names is one name.
\* input is the object handed in as it is left by the call.
\*   self[new_item_name] = {}                      (seeded)
\*   self.ho_data[new_item_name] = input_data      (renamed)
SetMetaStore(new_item_name, seeded, renamed) ==
    LET hoKeys == AppendNew(seeded.hoKeys, <<new_item_name>>)
    IN  [err   |-> "",
         m     |-> [seeded EXCEPT
                      !.hoKeys = hoKeys,
                      !.ho     = [k \in Range(hoKeys) |->
                                    IF k = new_item_name THEN renamed
                                    ELSE seeded.ho[k]]],
         input |-> renamed]

\*   names = [self.attr_case_name(name) for name in names]   (cased)
\*   input_data.data.columns = names, and the lines after it
SetMetaCased(m, new_item_name, labelled, cased) ==
    IF \E i \in 1..Len(cased) : cased[i].err # ""
    THEN [err   |-> cased[CHOOSE i \in 1..Len(cased) : cased[i].err # ""
                            /\ \A j \in 1..(i-1) : cased[j].err = ""].err,
          m     |-> m,
          input |-> labelled]
    ELSE Eval(LAMBDA a : SetMetaStore(new_item_name, a[1], a[2]),
              <<SetItemEmpty(m, new_item_name),
                RenameIndex(m, RenameColumns(labelled,
                               [i \in 1..Len(cased) |-> cased[i].name]))>>)

SetMeta(m, names, input_data) ==
    IF names \in Range(m.hoKeys) /\ empty(input_data)
    THEN [err |-> "", m |-> m, input |-> input_data]
    ELSE
      LET labelled   == accept_default_labels(input_data, m)
          attr_names == attrs(labelled)
      IN  IF attr_names.err # ""
          THEN [err |-> attr_names.err, m |-> m, input |-> labelled]
          ELSE Eval(LAMBDA a : SetMetaCased(m, a[1], labelled, a[2]),
                    <<var_case_name(m, names),
                      [i \in 1..Len(attr_names.names) |->
                         attr_case_name(m, attr_names.names[i])]>>)

\* One value handed to set for one name and one attribute:
\*   kind "scalar": val;  kind "list": the elements list;
\*   kind "meta": the Meta object meta[1]
Scalar(v)   == [kind |-> "scalar", val |-> v,    list |-> <<>>, meta |-> <<>>]
ListOf(l)   == [kind |-> "list",   val |-> None, list |-> l,    meta |-> <<>>]
MetaVal(c)  == [kind |-> "meta",   val |-> None, list |-> <<>>, meta |-> <<c>>]

\* '\n\n'.join(to_be_set) for a sequence of str values
RECURSIVE Join(_)
Join(l) ==
    IF Len(l) = 1 THEN l[1][2]
    ELSE l[1][2] \o "\n\n" \o Join(Tail(l))

\* the body of "for i, name in enumerate(names)" for one key that is
\* neither 'children' nor 'meta'
AssignCell(m, name, key, to_be_set) ==
    IF to_be_set.kind = "list"
    THEN LET elems == IF Len(to_be_set.list) = 0 THEN <<Str("")>>
                      ELSE to_be_set.list
         IN  IF elems[1][1] = "str"
             THEN LocSet(m, name, <<key>>, <<Str(Join(elems))>>)
             ELSE m
    ELSE IF to_be_set.kind = "meta"
    THEN LocSet(m, name, <<key>>, <<<<"Meta", "object">>>>)
    ELSE LocSet(m, name, <<key>>, <<to_be_set.val>>)

RECURSIVE AssignCells(_, _, _, _, _)
AssignCells(m, names, key, vals, i) ==
    IF i > Len(names) THEN m
    ELSE Eval(LAMBDA next : AssignCells(next, names, key, vals, i + 1),
              AssignCell(m, names[i], key, vals[i]))

\* for j, (item, val) in enumerate(zip(names, input_data['meta'])):
\*     if val is not None: self[item] = val
\* A value that is neither dict, Series nor Meta falls through __setitem__.
RECURSIVE AttachAll(_, _, _, _)
AttachAll(m, names, vals, j) ==
    IF j > Len(names) \/ j > Len(vals) THEN [err |-> "", m |-> m]
    ELSE IF vals[j].kind = "meta"
         THEN Eval(LAMBDA set :
                     IF set.err # "" THEN [err |-> set.err, m |-> set.m]
                     ELSE AttachAll(set.m, names, vals, j + 1),
                   SetMeta(m, names[j], vals[j].meta[1]))
         ELSE AttachAll(m, names, vals, j + 1)

\* A dict handed to set is a sequence of entries, in the order of the dict:
\* key is the attribute name, vals the values, one per name
Entry(k, v) == [key |-> k, vals |-> v]

DictKeys(d) == [i \in 1..Len(d) |-> d[i].key]

DictGet(d, k) == d[CHOOSE i \in 1..Len(d) : d[i].key = k].vals

\* input_data[new_name] = input_data.pop(name)
DictMove(d, name, new_name) ==
    LET vals   == DictGet(d, name)
        popped == SelectSeq(d, LAMBDA e : e.key # name)
    IN  IF new_name \in Range(DictKeys(popped))
        THEN [i \in 1..Len(popped) |->
                IF popped[i].key = new_name THEN Entry(new_name, vals)
                ELSE popped[i]]
        ELSE Append(popped, Entry(new_name, vals))

\* for name in keys: new_name = self.attr_case_name(name); ...
RECURSIVE RenameKeys(_, _, _, _)
RenameKeys(m, d, ks, i) ==
    IF i > Len(ks) THEN [err |-> "", d |-> d]
    ELSE Eval(LAMBDA new_name :
                IF new_name.err # "" THEN [err |-> new_name.err, d |-> d]
                ELSE RenameKeys(m,
                                IF new_name.name # ks[i]
                                THEN DictMove(d, ks[i], new_name.name) ELSE d,
                                ks, i + 1),
              attr_case_name(m, ks[i]))

\* for key in input_data: ... ("time to actually add the metadata")
RECURSIVE AssignKeys(_, _, _, _)
AssignKeys(m, names, d, k) ==
    IF k > Len(d) THEN [err |-> "", m |-> m]
    ELSE IF d[k].key \notin {"children", "meta"}
    THEN Eval(LAMBDA next : AssignKeys(next, names, d, k + 1),
              AssignCells(m, names, d[k].key, d[k].vals, 1))
    ELSE IF "meta" \notin Range(DictKeys(d))
    THEN [err |-> "KeyError", m |-> m]
    ELSE Eval(LAMBDA att :
                IF att.err # "" THEN att
                ELSE AssignKeys(att.m, names, d, k + 1),
              AttachAll(m, names, DictGet(d, "meta"), 1))

\* the check as it would be if only the first key were looked at
LengthMismatch_FirstKeyOnly(names, d) ==
    Len(d) > 0 /\ Len(names) # Len(d[1].vals)

\* the check "len(names) != len(input_data[key])" over all keys
LengthMismatch(names, d) ==
    \E k \in 1..Len(d) : Len(names) # Len(d[k].vals)

\* Meta.__setitem__, branch isinstance(input_data, dict), names a list
\* seeded: the names in their stored casing and the object with the
\* default rows inserted
SetDictSeeded(seeded, d) ==
    IF LengthMismatch(seeded.names, d)
    THEN [err |-> "ValueError", m |-> seeded.m]
    ELSE Eval(LAMBDA renamed :
                IF renamed.err # ""
                THEN [err |-> renamed.err, m |-> seeded.m]
                ELSE AssignKeys(seeded.m, seeded.names, renamed.d, 1),
              RenameKeys(seeded.m, d, DictKeys(d), 1))

SetDict(m, names, d) ==
    Eval(LAMBDA seeded : SetDictSeeded(seeded, d), ResolveAndDefault(m, names))

\* Meta.__setitem__, branch isinstance(input_data, dict), names a str:
\* names = [names] and every value is wrapped in a list of one
SetDictStr(m, name, d) ==
    SetDict(m, <<name>>,
            [i \in 1..Len(d) |-> Entry(d[i].key, <<d[i].vals>>)])

\* Meta.__setitem__, branch isinstance(input_data, pds.Series): got is the
\* row other[key] returned and cols its labels in order; the nested object
\* is stored under names as given
SetSeries(m, names, cols, got) ==
    LET hoKeys   == AppendNew(m.hoKeys, <<names>>)
        attached == IF got.children # <<>>
                    THEN [m EXCEPT !.hoKeys = hoKeys,
                                   !.ho = [k \in Range(hoKeys) |->
                                             IF k = names THEN got.children[1]
                                             ELSE m.ho[k]]]
                    ELSE m
        in_dict  == [i \in 1..Len(cols) |->
                       Entry(cols[i], Scalar(got.row[cols[i]]))]
    IN  SetDictStr(attached, names, in_dict)

\* self[name] = self[name]: the row __getitem__ returns for a str key is
\* handed to the Series branch of __setitem__
set_get(m, name) ==
    Eval(LAMBDA got :
           IF got.err # "" THEN [err |-> got.err, m |-> m]
           ELSE SetSeries(m, name, m.columns, got),
         GetItem(m, name))

----------------------------------------------------------------------------
(* Meta: structural operations *)

\* Meta.drop
drop(m, names) ==
    LET lower == DropRows(m, names)
        hoKeys == Without(lower.m.hoKeys, Range(names))
    IN  IF lower.err # "" THEN lower
        ELSE [err |-> "",
              m   |-> [lower.m EXCEPT
                         !.hoKeys = hoKeys,
                         !.ho     = [k \in Range(hoKeys) |-> lower.m.ho[k]]]]

\* Meta.keep
keep(m, keep_names) ==
    LET resolved   == {var_case_name(m, keep_names[i]) :
                          i \in 1..Len(keep_names)}
        drop_names == SelectSeq(m.index, LAMBDA name : name \notin resolved)
    IN  drop(m, drop_names)

\* what pop returns: the row with its children entry, or the nested object
NoReturn == [row |-> <<>>, children |-> <<>>, meta |-> <<>>]

\* Meta.pop
pop(m, label_name) ==
    IF contains(m, label_name)
    THEN Eval(LAMBDA new_name :
                IF new_name \in Range(keys(m))
                THEN Eval(LAMBDA output :
                            [err |-> output.err,
                             m   |-> IF output.err = ""
                                     THEN DropRows(m, <<new_name>>).m ELSE m,
                             ret |-> [row |-> output.row,
                                      children |-> output.children,
                                      meta |-> <<>>]],
                          GetItem(m, new_name))
                ELSE LET hoKeys == Without(m.hoKeys, {new_name})
                     IN  [err |-> "",
                          m   |-> [m EXCEPT
                                     !.hoKeys = hoKeys,
                                     !.ho = [k \in Range(hoKeys) |-> m.ho[k]]],
                          ret |-> [row |-> <<>>, children |-> <<>>,
                                   meta |-> <<m.ho[new_name]>>]],
              var_case_name(m, label_name))
    ELSE [err |-> "KeyError", m |-> m, ret |-> NoReturn]

\* Meta.merge, the loop over other.keys() from position i on; an exception
\* of self[key] = other[key] ends the loop
RECURSIVE MergeFrom(_, _, _)
MergeFrom(m, other, i) ==
    IF i > Len(keys(other)) THEN [err |-> "", m |-> m]
    ELSE IF contains(m, keys(other)[i]) THEN MergeFrom(m, other, i + 1)
    ELSE Eval(LAMBDA got :
                IF got.err # "" THEN [err |-> got.err, m |-> m]
                ELSE Eval(LAMBDA set :
                            IF set.err # "" THEN set
                            ELSE MergeFrom(set.m, other, i + 1),
                          SetSeries(m, keys(other)[i], other.columns, got)),
              GetItem(other, keys(other)[i]))

merge(m, other) == MergeFrom(m, other, 1)

\* apply_meta_labels as it would be if the roles of the two objects were
\* exchanged: a copy of self that takes the labels of other
apply_meta_labels_OfSelf(m, other_meta) ==
    [copy(m) EXCEPT !.labels = other_meta.labels]

\* Meta.apply_meta_labels
apply_meta_labels(m, other_meta) == [copy(other_meta) EXCEPT !.labels = m.labels]

\* Meta.apply_meta_labels for an other whose flag mutable is other_mutable:
\* the copy has the flag of other, and "other_updated.labels = self.labels"
\* is the assignment of an ordinary attribute of the copy
ApplyMetaLabelsTo(m, other_meta, other_mutable) ==
    IF other_mutable
    THEN [err |-> "", out |-> <<apply_meta_labels(m, other_meta)>>]
    ELSE [err |-> "AttributeError", out |-> <<>>]

\* the methods class Meta defines; concat calls self.apply_default_labels,
\* which is not among them and is provided by no __getattr__
MetaMethods ==
    {"merge", "drop", "keep", "apply_meta_labels", "accept_default_labels",
     "var_case_name", "keys", "keys_nD", "attrs", "hasattr_case_neutral",
     "attr_case_name", "concat", "copy", "pop",
     "transfer_attributes_to_instrument", "from_csv"}

\* mdata.data.loc[key] = other.data.loc[key]: the row is aligned on the
\* column labels of mdata
RECURSIVE ConcatRows(_, _, _)
ConcatRows(mdata, other, i) ==
    IF i > Len(keys(other)) THEN mdata
    ELSE LET key == keys(other)[i]
             row == [j \in 1..Len(mdata.columns) |->
                       IF mdata.columns[j] \in Range(other.columns)
                       THEN other.data[key][mdata.columns[j]] ELSE NaN]
         IN  Eval(LAMBDA next : ConcatRows(next, other, i + 1),
                  LocSet(mdata, key, mdata.columns, row))

\* the strict checks as they would be if the names were compared as written
Duplicated_CaseSensitive(mdata, other) ==
    \/ \E i \in 1..Len(keys(other))    : keys(other)[i] \in StoredNames(mdata)
    \/ \E i \in 1..Len(keys_nD(other)) : keys_nD(other)[i] \in StoredNames(mdata)

\* the two strict checks of Meta.concat
Duplicated(mdata, other) ==
    \/ \E i \in 1..Len(keys(other))    : contains(mdata, keys(other)[i])
    \/ \E i \in 1..Len(keys_nD(other)) : contains(mdata, keys_nD(other)[i])

\* Meta.concat
concat(m, other, strict) ==
    LET mdata == copy(m)
    IN  IF strict /\ Duplicated(mdata, other)
        THEN [err |-> "RuntimeError", out |-> <<>>]
        ELSE IF "apply_default_labels" \notin MetaMethods
        THEN [err |-> "AttributeError", out |-> <<>>]
        ELSE Eval(LAMBDA rows :
                    LET hoKeys == AppendNew(rows.hoKeys, keys_nD(other))
                    IN  [err |-> "",
                         out |-> <<[rows EXCEPT
                                      !.hoKeys = hoKeys,
                                      !.ho = [k \in Range(hoKeys) |->
                                                IF k \in Range(keys_nD(other))
                                                THEN other.ho[k]
                                                ELSE rows.ho[k]]]>>],
                  ConcatRows(mdata, other, 1))

\* self.data.loc[:, new_label] = self.data.loc[:, current_label]
\* self.data = self.data.drop(current_label, axis=1)
RenameColumn(m, current_label, new_label) ==
    LET columns == Without(AppendNew(m.columns, <<new_label>>),
                           {current_label})
    IN  [m EXCEPT
           !.columns = columns,
           !.data    = [n \in Range(m.index) |-> [c \in Range(columns) |->
                          IF c = new_label THEN m.data[n][current_label]
                          ELSE m.data[n][c]]]]

\* self.data[new_label] = value: the column holds value in every row; with
\* use_names_default the value of a row is its name
AddColumn(m, new_label, value, use_names_default) ==
    LET columns == AppendNew(m.columns, <<new_label>>)
    IN  [m EXCEPT
           !.columns = columns,
           !.data    = [n \in Range(m.index) |-> [c \in Range(columns) |->
                          IF c = new_label
                          THEN IF use_names_default THEN Str(n) ELSE value
                          ELSE m.data[n][c]]]]

\* setattr(self, name, value) for a name that is no property of the class
\* and is not 'mutable': the branch "a normal attribute" of __setattr__
SetNormalAttr(mut, cus, name, value) ==
    IF mut
    THEN [err |-> "",
          custom |-> {a \in cus : a[1] # name} \cup {<<name, value>>}]
    ELSE [err |-> "AttributeError", custom |-> cus]

\* the properties class Meta defines; data and ho_data have a setter
MetaProperties == {"ho_data", "data", "empty"}

SettableProperties == {"ho_data", "data"}

\* Meta.__setattr__(name, value).  value.val is a plain value, value.obj
\* the object (at most one) whose table, nested objects or labels are
\* assigned.  A property is set with the flag switched on and restored
\* afterwards; for a property without a setter the message is built by
\* ''.join with two arguments, which raises TypeError.
SetAttr(m, mut, cus, name, value) ==
    IF name = "mutable"
    THEN [err |-> "", m |-> m, mutable |-> value.val = Bool(TRUE),
          custom |-> cus]
    ELSE IF name \in MetaProperties
    THEN IF name \notin SettableProperties
         THEN [err |-> "TypeError", m |-> m, mutable |-> mut, custom |-> cus]
         ELSE [err     |-> "",
               m       |-> IF name = "data"
                           THEN [m EXCEPT !.index   = value.obj[1].index,
                                          !.columns = value.obj[1].columns,
                                          !.data    = value.obj[1].data]
                           ELSE [m EXCEPT !.hoKeys = value.obj[1].hoKeys,
                                          !.ho     = value.obj[1].ho],
               mutable |-> mut,
               custom  |-> cus]
    ELSE IF ~mut
    THEN [err |-> "AttributeError", m |-> m, mutable |-> mut, custom |-> cus]
    ELSE IF name = "labels"
    THEN [err |-> "", m |-> [m EXCEPT !.labels = value.obj[1].labels],
          mutable |-> mut, custom |-> cus]
    ELSE [err |-> "", m |-> m, mutable |-> mut,
          custom |-> SetNormalAttr(mut, cus, name, value.val).custom]

\* Meta._label_setter, the lines after "if new_label not in self.attrs()"
\* is decided: renamed is the object as the first block leaves it.  The
\* loop over keys_nD() sets the attribute attr_label on each nested object,
\* which is an ordinary instance attribute there and leaves its table alone.
LabelSetterStore(renamed, mut, cus, new_label, attr_label) ==
    IF renamed.err # ""
    THEN [err |-> renamed.err, m |-> renamed.m, custom |-> cus]
    ELSE LET hidden == SetNormalAttr(mut, cus, "_" \o attr_label,
                                     Str(new_label))
         IN  [err |-> hidden.err, m |-> renamed.m, custom |-> hidden.custom]

\* Meta._label_setter.  self.has_attr is called, which class Meta does not
\* define (it defines hasattr_case_neutral).
_label_setter(m, mut, cus, new_label, current_label, attr_label, default_type, use_names_default) ==
    LET own == attrs(m)
    IN  IF own.err # "" THEN [err |-> own.err, m |-> m, custom |-> cus]
        ELSE LabelSetterStore(
               IF new_label \in Range(own.names)
               THEN [err |-> "", m |-> m]
               ELSE IF current_label \in Range(own.names)
               THEN [err |-> "",
                     m   |-> RenameColumn(m, current_label, new_label)]
               ELSE IF "has_attr" \notin MetaMethods
               THEN [err |-> "AttributeError", m |-> m]
               ELSE [err |-> "",
                     m   |-> AddColumn(m, new_label,
                                       default_values_from_type(default_type),
                                       use_names_default)],
               mut, cus, new_label, attr_label)

\* dir(self) when __init__ stores it as _base_attr: the names the class
\* defines and the instance attributes __init__ has assigned by then
MetaBaseAttr ==
    MetaMethods \cup MetaProperties
    \cup {"__setattr__", "__setitem__", "__getitem__", "__contains__",
          "__eq__", "_insert_default_values", "_label_setter",
          "mutable", "labels", "_ho_data", "_data"}

\* the attribute names that occur in the model, in the order dir() lists
\* them (sorted): '_' sorts before the lower-case letters
SortedAttrNames ==
    <<"_fill_val_label", "_hidden", "_units_label", "note", "platform",
      "zlevel">>

\* key[0] == '_'
LeadingUnderscore(key) ==
    key \in {"_fill_val_label", "_hidden", "_units_label"}

\* The object attributes are transferred to is a record: base is its
\* _base_attr, attrs the attributes it holds beyond these, as a set of
\* <<name, value>>.

\* key in dir(inst)
InDir(inst, key) == key \in inst.base \/ \E a \in inst.attrs : a[1] = key

\* self.__getattribute__(key) for an attribute assigned from outside
GetAttribute(cus, key) == (CHOOSE a \in cus : a[1] = key)[2]

\* inst.__setattr__(key, value)
InstSetAttr(inst, key, value) ==
    [inst EXCEPT !.attrs = {a \in @ : a[1] # key} \cup {<<key, value>>}]

\* transfer_key: the names of dir(self) that are neither in inst._base_attr
\* nor in self._base_attr and do not start with '_'
TransferKeys(cus, inst) ==
    SelectSeq(SortedAttrNames,
              LAMBDA key : /\ \E a \in cus : a[1] = key
                           /\ key \notin inst.base
                           /\ key \notin MetaBaseAttr
                           /\ ~LeadingUnderscore(key))

\* the second loop as it would be if strict_names were never looked at
RECURSIVE TransferLoop_NeverStrict(_, _, _, _, _, _)
TransferLoop_NeverStrict(cus, inst, inst_attr, transfer_key, strict_names, i) ==
    IF i > Len(transfer_key) THEN [err |-> "", inst |-> inst]
    ELSE TransferLoop_NeverStrict(
             cus, InstSetAttr(inst, transfer_key[i],
                              GetAttribute(cus, transfer_key[i])),
             inst_attr, transfer_key, strict_names, i + 1)

\* the second loop of transfer_attributes_to_instrument, from the i-th key
\* on: inst_attr is dir(inst) as it was before the loop
RECURSIVE TransferLoop(_, _, _, _, _, _)
TransferLoop(cus, inst, inst_attr, transfer_key, strict_names, i) ==
    IF i > Len(transfer_key) THEN [err |-> "", inst |-> inst]
    ELSE IF transfer_key[i] \in inst_attr /\ strict_names
    THEN [err |-> "RuntimeError", inst |-> inst]
    ELSE TransferLoop(cus, InstSetAttr(inst, transfer_key[i],
                                       GetAttribute(cus, transfer_key[i])),
                      inst_attr, transfer_key, strict_names, i + 1)

\* Meta.transfer_attributes_to_instrument(inst, strict_names)
transfer_attributes_to_instrument(cus, inst, strict_names) ==
    TransferLoop(cus, inst,
                 {key \in Range(SortedAttrNames) \cup inst.base :
                      InDir(inst, key)},
                 TransferKeys(cus, inst), strict_names, 1)

\* Meta.__getitem__ for a tuple (variable name, attribute name) of two str
Get2Cased(m, new_index, new_name) ==
    IF new_name.err # "" THEN [err |-> new_name.err, val |-> None]
    ELSE IF new_index \notin Range(m.index)
            \/ new_name.name \notin Range(m.columns)
    THEN [err |-> "KeyError", val |-> None]
    ELSE [err |-> "", val |-> m.data[new_index][new_name.name]]

Get2(m, var, attr) ==
    Eval(LAMBDA a : Get2Cased(m, a[1], a[2]),
         <<var_case_name(m, var), attr_case_name(m, attr)>>)

\* Meta.__getitem__ for a tuple of three str, after the three names are
\* resolved: self.ho_data[new_index].data.loc[new_child_index, new_name]
Get3Cased(m, new_index, new_child_index, new_name) ==
    IF new_name.err # "" THEN [err |-> new_name.err, val |-> None]
    ELSE IF new_index \notin Range(m.hoKeys)
    THEN [err |-> "KeyError", val |-> None]
    ELSE IF new_child_index \notin Range(m.ho[new_index].index)
            \/ new_name.name \notin Range(m.ho[new_index].columns)
    THEN [err |-> "KeyError", val |-> None]
    ELSE [err |-> "",
          val |-> m.ho[new_index].data[new_child_index][new_name.name]]

\* Meta.__getitem__ for a tuple (variable, nested variable, attribute): the
\* nested variable's name is resolved by self.var_case_name, against the
\* names of self
Get3(m, var, child, attr) ==
    Eval(LAMBDA a : Get3Cased(m, a[1], a[2], a[3]),
         <<var_case_name(m, var), var_case_name(m, child),
           attr_case_name(m, attr)>>)

\* the comparison of two cells in Meta.__eq__: equal, or both NaN;
\* np.isnan of a str raises TypeError, which counts as not equal
CellsEqual(x, y) == x = y \/ (x = NaN /\ y = NaN)

\* "for key in self.keys(): for attr in self.attrs(): ..." of Meta.__eq__,
\* the values being read with self[key, attr] and other_meta[key, attr]
\* read[p] is <<self[key, attr], other_meta[key, attr]>> for p = <<key, attr>>
ValuesRead(pairs, read) ==
    IF \E p \in pairs : read[p][1].err # "" \/ read[p][2].err # ""
    THEN LET p == CHOOSE q \in pairs : read[q][1].err # "" \/ read[q][2].err # ""
         IN  [err |-> IF read[p][1].err # "" THEN read[p][1].err
                      ELSE read[p][2].err,
              val |-> FALSE]
    ELSE [err |-> "",
          val |-> \A p \in pairs : CellsEqual(read[p][1].val, read[p][2].val)]

ValuesEqual(a, b, ks, as) ==
    Eval(LAMBDA pairs :
           Eval(LAMBDA read : ValuesRead(pairs, read),
                [p \in pairs |-> <<Get2(a, p[1], p[2]), Get2(b, p[1], p[2])>>]),
         {<<ks[i], as[j]>> : i \in 1..Len(ks), j \in 1..Len(as)})

\* one level of Meta.__eq__: the keys, the attributes and the values
EqFlat(a, b) ==
    LET keys1  == keys(a)
        keys2  == keys(b)
        attrs1 == attrs(a)
        attrs2 == attrs(b)
    IN  IF Len(keys1) # Len(keys2) \/ ~(Range(keys1) \subseteq Range(keys2))
        THEN [err |-> "", val |-> FALSE]
        ELSE IF attrs1.err # "" THEN [err |-> attrs1.err, val |-> FALSE]
        ELSE IF attrs2.err # "" THEN [err |-> attrs2.err, val |-> FALSE]
        ELSE IF Len(attrs1.names) # Len(attrs2.names)
                \/ ~(Range(attrs1.names) \subseteq Range(attrs2.names))
        THEN [err |-> "", val |-> FALSE]
        ELSE ValuesEqual(a, b, keys1, attrs1.names)

\* Meta.__eq__ for two Meta objects: the flat level, the keys of the higher
\* order data, and for each of them the flat level of self[key].children
\* against other_meta[key].children
\* the comparison of self[key].children with other_meta[key].children
EqChildren(a, b, key) ==
    Eval(LAMBDA got :
           IF got[1].err # "" \/ got[2].err # ""
           THEN [err |-> "KeyError", val |-> FALSE]
           ELSE EqFlat(got[1].children[1], got[2].children[1]),
         <<GetItem(a, key), GetItem(b, key)>>)

\* sub[i] is the comparison for the i-th key of the higher order data
EqNested(sub) ==
    IF \E i \in 1..Len(sub) : sub[i].err # ""
    THEN [err |-> sub[CHOOSE i \in 1..Len(sub) : sub[i].err # ""].err,
          val |-> FALSE]
    ELSE [err |-> "", val |-> \A i \in 1..Len(sub) : sub[i].val]

\* flat is the outcome of the flat level
EqAfterFlat(a, b, flat) ==
    LET keys1 == keys_nD(a)
        keys2 == keys_nD(b)
    IN  IF flat.err # "" \/ ~flat.val THEN flat
        ELSE IF Len(keys1) # Len(keys2) \/ ~(Range(keys1) \subseteq Range(keys2))
        THEN [err |-> "", val |-> FALSE]
        ELSE Eval(LAMBDA sub : EqNested(sub),
                  [i \in 1..Len(keys1) |-> EqChildren(a, b, keys1[i])])

eq(a, b) == Eval(LAMBDA flat : EqAfterFlat(a, b, flat), EqFlat(a, b))

----------------------------------------------------------------------------
(* Inputs of the operations *)

NameLists == SeqsUpTo(VarNames, MaxNamesLen)

\* k times the value v
Times(k, v) == [i \in 1..k |-> v]

\* Meta objects handed to set, merge and concat: freshly constructed ones,
\* ones with a default row, frames without columns, and ones that carry a
\* nested object, each built by the operations above
Plain == MetaInit(MetaDefaultLabels)

FrameX == MetaFromFrame(<<"x">>)

\* Meta objects assigned under a name
NestMetas == {Plain, SetItemEmpty(Plain, "x"), FrameX}

\* Meta objects merged or concatenated into the model's object
OtherMetas ==
    {SetItemEmpty(Plain, "TEMP"),
     MetaFromFrame(<<"temp">>),
     SetMeta(MetaFromFrame(<<"v">>), "v", FrameX).m,
     SetMeta(Plain, "V", FrameX).m}

\* m with the fill value of its first variable replaced by NaN, when it has
\* a variable and the column
WithNaN(m) ==
    IF m.index # <<>> /\ "fill" \in Range(m.columns)
    THEN [m EXCEPT !.data[m.index[1]]["fill"] = NaN]
    ELSE m

\* objects an object is compared with: a deep copy of itself, and the copy
\* with one float attribute replaced by NaN
EqOthers(m) == {copy(m), WithNaN(copy(m))}

\* dicts for set with a list of names: no key, one key, two keys with
\* every combination of lengths, and the keys for nested objects
ListDicts ==
    {<<>>}
    \cup {<<Entry("units", Times(n, Scalar(Str("K"))))>> : n \in 0..MaxValsLen}
    \cup {<<Entry("units", Times(n1, Scalar(Str("K")))),
            Entry("long_name", Times(n2, Scalar(Str("T"))))>> :
             n1 \in 1..MaxValsLen, n2 \in 1..MaxValsLen}
    \cup {<<Entry(k, <<MetaVal(FrameX)>>)>> : k \in {"meta", "children"}}
    \cup {<<Entry("meta", <<Scalar(None), MetaVal(FrameX)>>)>>}

\* dicts for set with one name: one value per key
StrDicts ==
    {<<>>,
     <<Entry("units", Scalar(Str("K")))>>,
     <<Entry("UNITS", Scalar(Str("C")))>>,
     <<Entry("units", Scalar(Str("K"))), Entry("long_name", Scalar(Str("T")))>>,
     <<Entry("notes", ListOf(<<Str("a"), Str("b")>>))>>,
     <<Entry("notes", ListOf(<<IntV("1"), IntV("2")>>))>>,
     <<Entry("notes", ListOf(<<IntV("1"), IntV("2")>>)),
       Entry("units", Scalar(Str("K")))>>,
     <<Entry("meta", MetaVal(FrameX))>>,
     <<Entry("children", MetaVal(FrameX))>>}

----------------------------------------------------------------------------
(* Parameters (src/pysat/_params.py): the settings store.                  *)
(* A mapping (self.data, the JSON object in the file) is a function from   *)
(* its keys to its values.  The values in memory are the pairs             *)
(* <<type tag, text>> above; the values in the file are JSON values        *)
(* <<kind, text>>.                                                         *)

\* the processes that hold a Parameters instance on the same file
Procs == {1, 2}

\* file_lock when nobody holds the lock
Unlocked == 0

\* json.dump of one value
JsonOf(v) ==
    CASE v[1] = "str"      -> <<"string", v[2]>>
      [] v[1] = "int"      -> <<"number", v[2]>>
      [] v[1] = "bool"     -> <<"literal", IF v[2] = "True" THEN "true"
                                           ELSE "false">>
      [] v[1] = "NoneType" -> <<"literal", "null">>

\* json.load of one value
PyOf(j) ==
    CASE j[1] = "string" -> Str(j[2])
      [] j[1] = "number" -> IntV(j[2])
      [] j = <<"literal", "true">>  -> Bool(TRUE)
      [] j = <<"literal", "false">> -> Bool(FALSE)
      [] j = <<"literal", "null">>  -> None

\* json.dump as it would be if every value were written as a string
json_dump_AsStrings(d) == [k \in DOMAIN d |-> <<"string", d[k][2]>>]

\* json.dump(self.data, fout): the whole mapping
json_dump(d) == [k \in DOMAIN d |-> JsonOf(d[k])]

\* json.load(fout)
json_load(text) == [k \in DOMAIN text |-> PyOf(text[k])]

\* d[key] = value
DictSet(d, key, value) ==
    [k \in DOMAIN d \cup {key} |-> IF k = key THEN value ELSE d[k]]

\* self.defaults, and its keys in the order of the dict
defaults ==
    [clean_level        |-> Str("clean"),
     directory_format   |-> Str("{platform}/{name}/{tag}"),
     ignore_empty_files |-> Bool(TRUE),
     file_timeout       |-> IntV("10"),
     update_files       |-> Bool(TRUE)]

DefaultKeys ==
    <<"clean_level", "directory_format", "ignore_empty_files",
      "file_timeout", "update_files">>

\* self.non_defaults
non_defaults == <<"data_dir", "user_modules">>

\* d after "for key in ks: d[key] = value_of[key]"
RECURSIVE SetAll(_, _, _, _)
SetAll(d, ks, value_of, i) ==
    IF i > Len(ks) THEN d
    ELSE SetAll(DictSet(d, ks[i], value_of[ks[i]]), ks, value_of, i + 1)

\* pysat.utils.set_data_dir(value, store=False) followed by the read of
\* pysat.data_dir: the call is made outside this class; it raises, or
\* leaves the directory it was given in pysat.data_dir
set_data_dir(value) ==
    {[err |-> "ValueError", data_dir |-> None],
     [err |-> "",           data_dir |-> value]}

\* Parameters.__setitem__, the lines before the file is stored: the
\* outcomes [err, data]
SetItemData(d, key, value) ==
    IF key = "data_dir"
    THEN {[err  |-> o.err,
           data |-> IF o.err = "" THEN DictSet(d, "data_dir", o.data_dir)
                    ELSE d] : o \in set_data_dir(value)}
    ELSE {[err |-> "", data |-> DictSet(d, key, value)]}

\* restore_defaults as it would be if it started from the defaults alone
restore_defaults_DefaultsOnly(d) == defaults

\* Parameters.restore_defaults, the lines before the file is stored: all
\* keys but the last are set directly, the last by self[key] = value,
\* which is no 'data_dir'
restore_defaults(d) ==
    DictSet(SetAll(d, SubSeq(DefaultKeys, 1, Len(DefaultKeys) - 1),
                   defaults, 1),
            DefaultKeys[Len(DefaultKeys)],
            defaults[DefaultKeys[Len(DefaultKeys)]])

\* Parameters.clear_and_restart, the lines before the file is stored
clear_and_restart(d) ==
    DictSet(SetAll(defaults, SubSeq(non_defaults, 1, Len(non_defaults) - 1),
                   [k \in Range(non_defaults) |-> Str("")], 1),
            non_defaults[Len(non_defaults)], Str(""))

\* Lock(self.file_path, ...) is granted: nobody holds the lock
CanLock(holder, p) == holder = Unlocked

\* a Parameters instance between two calls; pre is the mapping before the
\* call in progress
Instance(d) ==
    [data |-> d, pc |-> "idle", op |-> "none", key |-> "", pre |-> d,
     err |-> ""]

\* Parameters.__init__, the load of the file under the lock
Loaded(text) == Instance(json_load(text))

\* the settings files instances are constructed on: the file as
\* clear_and_restart writes it, and a file written by hand that names the
\* data directory only
SettingsFiles ==
    {json_dump(clear_and_restart(<<>>)),
     json_dump([data_dir |-> Str("/d")])}

----------------------------------------------------------------------------
(* The state machine: one Meta object and the record of the call in      *)
(* progress.  The object is used by one caller, synchronously: a call is   *)
(* made, its outcome is recorded in last, and the caller takes the outcome *)
(* (Return) before it makes the next call.                                 *)

NoCall(m) ==
    [op |-> "none", names |-> <<>>, dict |-> <<>>, arg |-> <<>>,
     strict |-> FALSE, pre |-> m, pre_mutable |-> TRUE, pre_custom |-> {},
     err |-> "", ret |-> NoReturn, val |-> None, out |-> <<>>]

Call(op, names, d, arg, strict, res) ==
    [op |-> op, names |-> names, dict |-> d, arg |-> arg, strict |-> strict,
     pre |-> meta, pre_mutable |-> mutable, pre_custom |-> custom,
     err |-> res.err, ret |-> res.ret, val |-> res.val, out |-> res.out]

Res(err) == [err |-> err, ret |-> NoReturn, val |-> None, out |-> <<>>]

Idle == last.op = "none"

Init ==
    /\ meta \in {MetaInit(MetaDefaultLabels),
                 MetaInit(Append(MetaDefaultLabels, CustomIntLabel)),
                 MetaFromFrame(<<"temp">>)}
    /\ last = NoCall(meta)
    /\ mutable = TRUE
    /\ custom = {}
    /\ settings_file = json_dump(clear_and_restart(<<>>))
    /\ file_lock = Unlocked
    /\ params = [p \in Procs |-> Loaded(settings_file)]

\* the caller takes the outcome of the call
Return ==
    /\ ~Idle
    /\ UNCHANGED <<attrVars, paramVars>>
    /\ meta' = meta
    /\ last' = NoCall(meta)

\* meta[names] = d, names a list
SetList ==
    \E names \in NameLists, d \in ListDicts :
        LET r == SetDict(meta, names, d)
        IN  /\ Idle
            /\ UNCHANGED <<attrVars, paramVars>>
            /\ meta' = r.m
            /\ last' = Call("set", names, d, <<>>, FALSE, Res(r.err))

\* meta[name] = d, name a str
SetStr ==
    \E name \in VarNames, d \in StrDicts :
        LET r == SetDictStr(meta, name, d)
        IN  /\ Idle
            /\ UNCHANGED <<attrVars, paramVars>>
            /\ meta' = r.m
            /\ last' = Call("set_str", <<name>>, d, <<>>, FALSE, Res(r.err))

\* meta[name] = other, other a Meta object
SetNested ==
    \E name \in VarNames, other \in NestMetas :
        LET r == SetMeta(meta, name, other)
        IN  /\ Idle
            /\ UNCHANGED <<attrVars, paramVars>>
            /\ meta' = r.m
            /\ last' = Call("set_meta", <<name>>, <<>>, <<other>>, FALSE,
                            Res(r.err))

\* meta[name]
Get ==
    \E name \in VarNames :
        LET r == GetItem(meta, name)
        IN  /\ Idle
            /\ UNCHANGED <<attrVars, paramVars>>
            /\ meta' = meta
            /\ last' = Call("get", <<name>>, <<>>, <<>>, FALSE,
                            [Res(r.err) EXCEPT !.ret.row = r.row,
                                               !.ret.children = r.children])

\* meta.merge(other)
Merge ==
    \E other \in OtherMetas :
        LET r == merge(meta, other)
        IN  /\ Idle
            /\ UNCHANGED <<attrVars, paramVars>>
            /\ meta' = r.m
            /\ last' = Call("merge", <<>>, <<>>, <<other>>, FALSE, Res(r.err))

\* meta.drop(names)
Drop ==
    \E names \in NameLists :
        LET r == drop(meta, names)
        IN  /\ Idle
            /\ UNCHANGED <<attrVars, paramVars>>
            /\ meta' = r.m
            /\ last' = Call("drop", names, <<>>, <<>>, FALSE, Res(r.err))

\* meta.keep(names)
Keep ==
    \E names \in NameLists :
        LET r == keep(meta, names)
        IN  /\ Idle
            /\ UNCHANGED <<attrVars, paramVars>>
            /\ meta' = r.m
            /\ last' = Call("keep", names, <<>>, <<>>, FALSE, Res(r.err))

\* meta.pop(name)
Pop ==
    \E name \in VarNames :
        LET r == pop(meta, name)
        IN  /\ Idle
            /\ UNCHANGED <<attrVars, paramVars>>
            /\ meta' = r.m
            /\ last' = Call("pop", <<name>>, <<>>, <<>>, FALSE,
                            [Res(r.err) EXCEPT !.ret = r.ret])

\* meta.concat(other, strict): meta is left alone, a new object is returned
Concat ==
    \E other \in OtherMetas, strict \in BOOLEAN :
        LET r == concat(meta, other, strict)
        IN  /\ Idle
            /\ UNCHANGED <<attrVars, paramVars>>
            /\ meta' = meta
            /\ last' = Call("concat", <<>>, <<>>, <<other>>, strict,
                            [Res(r.err) EXCEPT !.out = r.out])

\* the attribute assignments made from outside: the flag, an instance
\* attribute of the user, the label registry, and the three properties
Plainly(v) == [val |-> v, obj |-> <<>>]

FromObj(o) == [val |-> None, obj |-> <<o>>]

AttrAssignments ==
    {<<"mutable", Plainly(Bool(TRUE))>>, <<"mutable", Plainly(Bool(FALSE))>>,
     <<"note", Plainly(Str("a"))>>,
     <<"labels", FromObj(MetaInit(Append(MetaDefaultLabels, CustomIntLabel)))>>,
     <<"data", FromObj(FrameX)>>,
     <<"ho_data", FromObj(SetMeta(MetaFromFrame(<<"v">>), "v", FrameX).m)>>,
     <<"empty", Plainly(Bool(TRUE))>>}

\* meta.<name> = value
SetAttribute ==
    \E a \in AttrAssignments :
        LET r == SetAttr(meta, mutable, custom, a[1], a[2])
        IN  /\ Idle
            /\ UNCHANGED paramVars
            /\ mutable' = r.mutable
            /\ custom' = r.custom
            /\ meta' = r.m
            /\ last' = Call("setattr", <<a[1]>>, <<>>, a[2].obj, FALSE,
                            [Res(r.err) EXCEPT !.val = a[2].val])

\* the roles whose label is renamed, and the new label
RenamedRoles == {"units", "fill_val"}

NewLabel(role) == "new_" \o role

\* meta._label_setter(new_label, meta.labels.<role>, <role>_label, type)
LabelSetter ==
    \E role \in RenamedRoles :
        LET r == _label_setter(meta, mutable, custom, NewLabel(role),
                               meta.labels.attr[role], role \o "_label",
                               meta.labels.label_type[role], FALSE)
        IN  /\ Idle
            /\ UNCHANGED paramVars
            /\ mutable' = mutable
            /\ custom' = r.custom
            /\ meta' = r.m
            /\ last' = Call("_label_setter",
                            <<NewLabel(role), meta.labels.attr[role]>>,
                            <<>>, <<>>, FALSE, Res(r.err))

\* meta.apply_meta_labels(other): meta and other are left alone, a new
\* object is returned; val records the flag mutable of other
ApplyMetaLabels ==
    \E other \in OtherMetas, other_mutable \in BOOLEAN :
        LET r == ApplyMetaLabelsTo(meta, other, other_mutable)
        IN  /\ Idle
            /\ UNCHANGED <<attrVars, paramVars>>
            /\ meta' = meta
            /\ last' = Call("apply_meta_labels", <<>>, <<>>, <<other>>, FALSE,
                            [Res(r.err) EXCEPT !.out = r.out,
                                               !.val = Bool(other_mutable)])

\* meta[name] = meta[name]
RoundTrip ==
    \E name \in VarNames :
        LET r == set_get(meta, name)
        IN  /\ Idle
            /\ UNCHANGED <<attrVars, paramVars>>
            /\ meta' = r.m
            /\ last' = Call("set_get", <<name>>, <<>>, <<>>, FALSE, Res(r.err))

\* meta[name, child, attr], the nested variable and the attribute written
\* in either case
Get3Item ==
    \E name \in VarNames, child \in {"x", "X"}, attr \in {"units", "UNITS"} :
        LET r == Get3(meta, name, child, attr)
        IN  /\ Idle
            /\ UNCHANGED <<attrVars, paramVars>>
            /\ meta' = meta
            /\ last' = Call("get3", <<name, child, attr>>, <<>>, <<>>, FALSE,
                            [Res(r.err) EXCEPT !.val = r.val])

\* the dicts {key: child} assigned to ho_data, each carried by an object:
\* the nested object has a variable x with the default attributes, or no
\* column at all
HoDicts ==
    {[Plain EXCEPT !.hoKeys = <<key>>, !.ho = [k \in {key} |-> child]] :
        key \in {"v", "TEMP"}, child \in {SetItemEmpty(Plain, "x"), FrameX}}

\* meta.ho_data = new_dict
SetHoData ==
    \E d \in HoDicts :
        LET r == SetAttr(meta, mutable, custom, "ho_data", FromObj(d))
        IN  /\ Idle
            /\ UNCHANGED <<attrVars, paramVars>>
            /\ meta' = r.m
            /\ last' = Call("setattr", <<"ho_data">>, <<>>, <<d>>, FALSE,
                            Res(r.err))

\* meta == other
Eq ==
    \E other \in EqOthers(meta) :
        LET r == eq(meta, other)
        IN  /\ Idle
            /\ UNCHANGED <<attrVars, paramVars>>
            /\ meta' = meta
            /\ last' = Call("eq", <<>>, <<>>, <<other>>, FALSE,
                            [Res(r.err) EXCEPT !.val = Bool(r.val)])

\* meta.labels.default_values_from_type(val_type)
DefaultFromType ==
    \E val_type \in ValTypes :
        /\ Idle
        /\ UNCHANGED <<attrVars, paramVars>>
        /\ meta' = meta
        /\ last' = Call("default_values_from_type", <<val_type>>, <<>>, <<>>,
                        FALSE,
                        [Res("") EXCEPT !.val = default_values_from_type(val_type)])

\* the attributes a user attaches to the object, and the flag
CustomAssignments ==
    {<<"note", Plainly(Str("a"))>>, <<"note", Plainly(Str("b"))>>,
     <<"_hidden", Plainly(Str("a"))>>,
     <<"platform", Plainly(Str("a"))>>,
     <<"zlevel", Plainly(Str("a"))>>,
     <<"mutable", Plainly(Bool(TRUE))>>, <<"mutable", Plainly(Bool(FALSE))>>}

\* meta.<name> = value for these
SetCustom ==
    \E a \in CustomAssignments :
        LET r == SetAttr(meta, mutable, custom, a[1], a[2])
        IN  /\ Idle
            /\ UNCHANGED paramVars
            /\ mutable' = r.mutable
            /\ custom' = r.custom
            /\ meta' = r.m
            /\ last' = Call("setattr", <<a[1]>>, <<>>, <<>>, FALSE,
                            [Res(r.err) EXCEPT !.val = a[2].val])

\* the objects attributes are transferred to: 'platform' and 'name' are
\* among the base attributes; the object holds nothing else, or a note, or
\* a note and a zlevel
Instruments ==
    {[base |-> {"platform", "name"}, attrs |-> A] :
        A \in {{}, {<<"note", Str("old")>>},
               {<<"note", Str("old")>>, <<"zlevel", Str("old")>>}}}

\* meta.transfer_attributes_to_instrument(inst, strict_names): arg is inst
\* before the call, out is inst after it
Transfer ==
    \E inst \in Instruments, strict_names \in BOOLEAN :
        LET r == transfer_attributes_to_instrument(custom, inst, strict_names)
        IN  /\ Idle
            /\ UNCHANGED <<attrVars, paramVars>>
            /\ meta' = meta
            /\ last' = Call("transfer", <<>>, <<>>, <<inst>>, strict_names,
                            [Res(r.err) EXCEPT !.out = <<r.inst>>])

Next ==
    \/ SetList
    \/ SetStr
    \/ SetNested
    \/ Get
    \/ Merge
    \/ Drop
    \/ Keep
    \/ Pop
    \/ Concat
    \/ ApplyMetaLabels
    \/ RoundTrip
    \/ Eq
    \/ LabelSetter
    \/ DefaultFromType
    \/ Return

Spec == Init /\ [][Next]_vars

\* the object under attribute assignments from outside, together with the
\* operations on its table that the flag mutable could stand in the way of
NextAttr ==
    \/ SetAttribute
    \/ SetStr
    \/ Drop
    \/ LabelSetter
    \/ Return

SpecAttr == Init /\ [][NextAttr]_vars

\* the object from its construction without metadata on, under set, merge,
\* drop, keep and pop, and the concatenations made of it
InitEmpty ==
    /\ Init
    /\ StoredNames(meta) = {}

NextEmpty ==
    \/ SetList
    \/ SetStr
    \/ SetNested
    \/ RoundTrip
    \/ Merge
    \/ Drop
    \/ Keep
    \/ Pop
    \/ Concat
    \/ Return

SpecEmpty == InitEmpty /\ [][NextEmpty]_vars

\* the object with nested objects that hold variables of their own, and
\* the reads of their values
NextNested ==
    \/ SetHoData
    \/ SetNested
    \/ SetStr
    \/ Get3Item
    \/ Return

SpecNested == Init /\ [][NextNested]_vars

\* the object with the attributes a user attaches to it, and their transfer
\* to an Instrument
NextTransfer ==
    \/ SetCustom
    \/ Transfer
    \/ Return

SpecTransfer == Init /\ [][NextTransfer]_vars

----------------------------------------------------------------------------
(* The settings store as a state machine: every process holds one          *)
(* Parameters instance, loaded from the same file.  A mutation changes     *)
(* self.data (pc "lock"), takes the lock (pc "locked"), writes the file    *)
(* (pc "written") and leaves the with block (pc "done"); an exception ends  *)
(* it at pc "done" with err set.  The caller then takes the outcome.       *)

\* the instance of p as a call has changed it
Called(p, op, key, d, pc, err) ==
    [params EXCEPT ![p] = [data |-> d, pc |-> pc, op |-> op, key |-> key,
                           pre |-> params[p].data, err |-> err]]

\* the instance of p at its next position
At(p, pc, err) == [params EXCEPT ![p].pc = pc, ![p].err = err]

\* the item assignments made: a parameter with a default, a parameter of
\* the user, and the data directory
ItemAssignments ==
    {<<"clean_level", Str("dirty")>>,
     <<"my_key", IntV("1")>>,
     <<"data_dir", Str("/d")>>}

\* params[key] = value, up to the with statement
SetItem ==
    \E p \in Procs, a \in ItemAssignments :
        \E o \in SetItemData(params[p].data, a[1], a[2]) :
            /\ params[p].pc = "idle"
            /\ params' = Called(p, "setitem", a[1], o.data,
                                IF o.err = "" THEN "lock" ELSE "done", o.err)
            /\ UNCHANGED <<settings_file, file_lock, metaVars>>

\* params.restore_defaults(), up to the with statement of the last key
RestoreDefaults ==
    \E p \in Procs :
        /\ params[p].pc = "idle"
        /\ params' = Called(p, "restore_defaults",
                            DefaultKeys[Len(DefaultKeys)],
                            restore_defaults(params[p].data), "lock", "")
        /\ UNCHANGED <<settings_file, file_lock, metaVars>>

\* params.clear_and_restart(), up to the with statement of the last key
ClearAndRestart ==
    \E p \in Procs :
        /\ params[p].pc = "idle"
        /\ params' = Called(p, "clear_and_restart",
                            non_defaults[Len(non_defaults)],
                            clear_and_restart(params[p].data), "lock", "")
        /\ UNCHANGED <<settings_file, file_lock, metaVars>>

\* self['file_timeout'] of the with statement raises KeyError
TimeoutMissing ==
    \E p \in Procs :
        /\ params[p].pc = "lock"
        /\ "file_timeout" \notin DOMAIN params[p].data
        /\ params' = At(p, "done", "KeyError")
        /\ UNCHANGED <<settings_file, file_lock, metaVars>>

\* the lock is granted
Acquire ==
    \E p \in Procs :
        /\ params[p].pc = "lock"
        /\ "file_timeout" \in DOMAIN params[p].data
        /\ CanLock(file_lock, p)
        /\ file_lock' = p
        /\ params' = At(p, "locked", "")
        /\ UNCHANGED <<settings_file, metaVars>>

\* the lock is held by another process until the timeout has passed
LockTimeout ==
    \E p \in Procs :
        /\ params[p].pc = "lock"
        /\ "file_timeout" \in DOMAIN params[p].data
        /\ file_lock \notin {Unlocked, p}
        /\ params' = At(p, "done", "LockException")
        /\ UNCHANGED <<settings_file, file_lock, metaVars>>

\* json.dump(self.data, fout), flush and fsync
Dump ==
    \E p \in Procs :
        /\ params[p].pc = "locked"
        /\ settings_file' = json_dump(params[p].data)
        /\ params' = At(p, "written", "")
        /\ UNCHANGED <<file_lock, metaVars>>

\* the with block is left: the lock is released and the call returns
Release ==
    \E p \in Procs :
        /\ params[p].pc = "written"
        /\ file_lock' = Unlocked
        /\ params' = At(p, "done", "")
        /\ UNCHANGED <<settings_file, metaVars>>

\* the caller takes the outcome of the call
ParamsReturn ==
    \E p \in Procs :
        /\ params[p].pc = "done"
        /\ params' = [params EXCEPT ![p] = Instance(params[p].data)]
        /\ UNCHANGED <<settings_file, file_lock, metaVars>>

\* the process constructs its instance anew: Parameters(), the load of the
\* file under the lock
Load ==
    \E p \in Procs :
        /\ params[p].pc = "idle"
        /\ CanLock(file_lock, p)
        /\ params' = [params EXCEPT ![p] = Loaded(settings_file)]
        /\ UNCHANGED <<settings_file, file_lock, metaVars>>

\* the instances are constructed on one of the settings files
InitParams ==
    /\ meta = Plain
    /\ last = NoCall(meta)
    /\ mutable = TRUE
    /\ custom = {}
    /\ settings_file \in SettingsFiles
    /\ file_lock = Unlocked
    /\ params = [p \in Procs |-> Loaded(settings_file)]

NextParams ==
    \/ SetItem
    \/ RestoreDefaults
    \/ ClearAndRestart
    \/ TimeoutMissing
    \/ Acquire
    \/ LockTimeout
    \/ Dump
    \/ Release
    \/ ParamsReturn
    \/ Load

SpecParams == InitParams /\ [][NextParams]_vars

\* two instances loaded from the same file, under item assignments only
NextShared ==
    \/ SetItem
    \/ TimeoutMissing
    \/ Acquire
    \/ LockTimeout
    \/ Dump
    \/ Release
    \/ ParamsReturn

SpecShared == InitParams /\ [][NextShared]_vars

----------------------------------------------------------------------------
(* Vocabulary of the properties *)

\* name is held by m, in whatever letter case
Held(m, name) == \E n \in StoredNames(m) : Lower(n) = Lower(name)

\* the attribute names of a dict in the str form are all scalar values of
\* ordinary attributes
ScalarDict(d) ==
    \A i \in 1..Len(d) : d[i].key \notin {"children", "meta"}
                         /\ d[i].vals.kind = "scalar"

\* the default the documentation gives for a role
DocumentedDefault(labels, role) ==
    IF role = "scale" THEN Str("linear")
    ELSE CASE labels.label_type[role] = "str"   -> Str("")
           [] labels.label_type[role] = "float" -> NaN
           [] labels.label_type[role] = "int"   -> IntV("-1")
           [] OTHER                             -> None

\* the keys of a dict, list or str form, lowered
LowerKeys(d) == {Lower(d[i].key) : i \in 1..Len(d)}

\* the row stored for name holds the documented default of every role the
\* dict d does not assign
HasDefaults(m, name, d) ==
    \E n \in Range(m.index) :
        /\ Lower(n) = Lower(name)
        /\ \A role \in DOMAIN m.labels.label_type :
              Lower(m.labels.attr[role]) \notin LowerKeys(d) =>
                 /\ m.labels.attr[role] \in Range(m.columns)
                 /\ m.data[n][m.labels.attr[role]]
                      = DocumentedDefault(m.labels, role)

----------------------------------------------------------------------------
(* C1: for names n and m that differ only in letter case, after set(n, ..)
   a later set(m, values2) updates the one row stored for n, get(m, attr)
   and get(n, attr) read the assigned value from it, no second row appears
   and the stored name stays n. *)
C1_OneRowWhateverTheCase ==
    \A n \in Range(last.pre.index) :
        (/\ last.op = "set_str"
         /\ last.dict # <<>>
         /\ ScalarDict(last.dict)
         /\ Lower(last.names[1]) = Lower(n))
        => /\ last.err = ""
           /\ meta.index = last.pre.index
           /\ \A i \in 1..Len(last.dict) :
                 /\ Get2(meta, last.names[1], last.dict[i].key)
                      = [err |-> "", val |-> last.dict[i].vals.val]
                 /\ Get2(meta, n, last.dict[i].key)
                      = [err |-> "", val |-> last.dict[i].vals.val]

(* C2: after set(names, values) has returned, every name that was not held
   before has a row with the documented default of every role that values
   does not assign: 'linear' for scale, '' for str, NaN for float, -1 for
   int, None otherwise. *)
C2_NewRowsHoldDocumentedDefaults ==
    (last.op \in {"set", "set_str"} /\ last.err = "")
    => \A i \in 1..Len(last.names) :
          ~Held(last.pre, last.names[i])
          => HasDefaults(meta, last.names[i], last.dict)

(* C3: default_values_from_type returns '' for str, NaN for float, -1 for
   int and None for every other type. *)
C3_DefaultPerType ==
    last.op = "default_values_from_type"
    => last.val = CASE last.names[1] = "str"   -> Str("")
                    [] last.names[1] = "float" -> NaN
                    [] last.names[1] = "int"   -> IntV("-1")
                    [] OTHER                   -> None

(* C4: get(name) fails with the not-found error exactly when the name is
   not held; when it is held, get returns the stored row and a children
   entry that is the nested object of the name, or None without one. *)
C4_GetFailsExactlyWhenNotHeld ==
    last.op = "get"
    => /\ (last.err = "KeyError") <=> ~Held(meta, last.names[1])
       /\ Held(meta, last.names[1])
          => /\ last.err = ""
             /\ \E n \in Range(meta.index) :
                   /\ Lower(n) = Lower(last.names[1])
                   /\ last.ret.row = meta.data[n]
                   /\ last.ret.children =
                        IF n \in Range(meta.hoKeys) THEN <<meta.ho[n]>>
                        ELSE <<>>

(* C5: after a non-empty Meta object C is assigned under the name v, v has
   a flat row and get(v)['children'] equals C under Meta.__eq__. *)
C5_AssignedNestedObjectIsReturned ==
    (last.op = "set_meta" /\ ~empty(last.arg[1]))
    => /\ last.err = ""
       /\ \E n \in Range(meta.index) : Lower(n) = Lower(last.names[1])
       /\ GetItem(meta, last.names[1]).err = ""
       /\ GetItem(meta, last.names[1]).children # <<>>
       /\ eq(GetItem(meta, last.names[1]).children[1], last.arg[1])
            = [err |-> "", val |-> TRUE]

(* C6: set(names, values) with a list of names fails with ValueError
   whenever some attribute of values comes with a number of values that
   differs from the number of names. *)
C6_MismatchedCountsRaiseValueError ==
    (/\ last.op = "set"
     /\ \E k \in 1..Len(last.dict) :
           Len(last.dict[k].vals) # Len(last.names))
    => last.err = "ValueError"

\* a set was refused although the first attribute has one value per name:
\* a later attribute has not
C6_Witness ==
    /\ last.op = "set"
    /\ last.err = "ValueError"
    /\ Len(last.dict) = 2
    /\ Len(last.dict[1].vals) = Len(last.names)
    /\ Len(last.dict[2].vals) # Len(last.names)

(* C7: after merge(other), every variable of other that was not held
   before is held with the attribute values and the nested object it has
   in other, and every variable held before keeps its row and its nested
   object. *)
C7_MergeCopiesWhatIsNew ==
    last.op = "merge"
    => /\ last.err = ""
       /\ \A key \in StoredNames(last.arg[1]) :
             ~Held(last.pre, key)
             => /\ Held(meta, key)
                /\ key \in Range(last.arg[1].index)
                   => /\ key \in Range(meta.index)
                      /\ \A c \in Range(last.arg[1].columns) :
                            /\ c \in Range(meta.columns)
                            /\ meta.data[key][c] = last.arg[1].data[key][c]
                /\ key \in Range(last.arg[1].hoKeys)
                   => /\ key \in Range(meta.hoKeys)
                      /\ meta.ho[key] = last.arg[1].ho[key]
       /\ \A n \in Range(last.pre.index) :
             /\ n \in Range(meta.index)
             /\ \A c \in Range(last.pre.columns) :
                   meta.data[n][c] = last.pre.data[n][c]
       /\ \A n \in Range(last.pre.hoKeys) :
             n \in Range(meta.hoKeys) /\ meta.ho[n] = last.pre.ho[n]

(* C8: when every name of names is held, drop(names) leaves none of them
   held, neither as a flat row nor as a nested entry; and a set of a name
   that is not held creates a row that holds the default of the label
   registry for every role, with no nested object. *)
C8_DropThenSetStartsAfresh ==
    /\ (last.op = "drop" /\ \A i \in 1..Len(last.names) :
                                Held(last.pre, last.names[i]))
       => /\ last.err = ""
          /\ \A i \in 1..Len(last.names) : ~Held(meta, last.names[i])
    /\ (last.op = "set_str" /\ last.dict = <<>>
                            /\ ~Held(last.pre, last.names[1]))
       => /\ last.err = ""
          /\ last.names[1] \in Range(meta.index)
          /\ \A role \in DOMAIN meta.labels.label_type :
                meta.data[last.names[1]][meta.labels.attr[role]]
                   = default_values_from_attr(meta.labels, role).val
          /\ \A k \in Range(meta.hoKeys) : Lower(k) # Lower(last.names[1])

(* C9: after keep(names) the stored names, flat and nested, are exactly the
   ones stored before that equal a member of names up to letter case, and
   their rows and nested objects are unchanged. *)
C9_KeepLeavesExactlyTheNamed ==
    last.op = "keep"
    => /\ last.err = ""
       /\ StoredNames(meta) =
             {n \in StoredNames(last.pre) :
                 \E i \in 1..Len(last.names) : Lower(n) = Lower(last.names[i])}
       /\ \A n \in Range(meta.index) :
             n \in Range(last.pre.index) /\ meta.data[n] = last.pre.data[n]
       /\ \A n \in Range(meta.hoKeys) :
             n \in Range(last.pre.hoKeys) /\ meta.ho[n] = last.pre.ho[n]

\* some name of other, flat or nested, equals a stored name of m up to
\* letter case
SharesAName(m, other) ==
    \E a \in StoredNames(m), b \in StoredNames(other) : Lower(a) = Lower(b)

(* C10: concat(other, strict=True) fails with the duplicate-key error
   (RuntimeError) whenever a variable name of other, flat or nested, equals
   a name held by self up to letter case. *)
C10_StrictConcatRefusesSharedNames ==
    (last.op = "concat" /\ last.strict /\ SharesAName(last.pre, last.arg[1]))
    => last.err = "RuntimeError"

\* a strict concat was refused for a name the two objects write in
\* different letter case
C10_Witness ==
    /\ last.op = "concat"
    /\ last.strict
    /\ last.err = "RuntimeError"
    /\ SharesAName(last.pre, last.arg[1])
    /\ StoredNames(last.pre) \cap StoredNames(last.arg[1]) = {}

(* C11: concat(other, strict=False) succeeds for any two objects and
   returns a new object whose variable names are those of both; a name the
   two share holds other's values and other's nested object. *)
C11_NonStrictConcatUnitesBoth ==
    (last.op = "concat" /\ ~last.strict)
    => /\ last.err = ""
       /\ last.out # <<>>
       /\ StoredNames(last.out[1])
            = StoredNames(last.pre) \cup StoredNames(last.arg[1])
       /\ \A key \in Range(last.arg[1].index) :
             /\ key \in Range(last.out[1].index)
             /\ \A c \in Range(last.arg[1].columns)
                          \cap Range(last.out[1].columns) :
                   last.out[1].data[key][c] = last.arg[1].data[key][c]
       /\ \A key \in Range(last.arg[1].hoKeys) :
             last.out[1].ho[key] = last.arg[1].ho[key]

(* C12: pop(name) removes the named variable and returns its row when it is
   a flat variable, or its nested object when it is a higher-order variable;
   when the name is not held it fails with KeyError and leaves the object
   unchanged. *)
C12_PopRemovesAndReturns ==
    last.op = "pop"
    => /\ ~Held(last.pre, last.names[1])
          => (last.err = "KeyError" /\ meta = last.pre)
       /\ Held(last.pre, last.names[1])
          => /\ last.err = ""
             /\ ~Held(meta, last.names[1])
             /\ \E n \in StoredNames(last.pre) :
                   /\ Lower(n) = Lower(last.names[1])
                   /\ IF n \in Range(last.pre.hoKeys)
                      THEN last.ret.meta = <<last.pre.ho[n]>>
                      ELSE last.ret.row = last.pre.data[n]

(* C13: an object equals a deep copy of itself, also when a float
   attribute is NaN in both; it does not equal the copy in which that
   attribute is NaN in one of the two only. *)
C13_EqualToItsCopyNaNIncluded ==
    last.op = "eq"
    => /\ last.err = ""
       /\ (last.val = Bool(TRUE)) <=> (last.arg[1] = last.pre)

\* every value of the column old of m is the value of the column new of
\* renamed, for the same variable, and old is no column of renamed
ColumnRenamed(m, renamed, old, new) ==
    old \in Range(m.columns)
    => /\ new \in Range(renamed.columns)
       /\ old \notin Range(renamed.columns)
       /\ \A n \in Range(m.index) :
             n \in Range(renamed.index)
             /\ renamed.data[n][new] = m.data[n][old]

(* C14: renaming the label of a role changes the column name to the new
   label in the object and in every nested object, and every value stored
   under the old label is afterwards stored under the new label for the
   same variable. *)
C14_RenamedLabelKeepsValues ==
    last.op = "_label_setter"
    => /\ last.err = ""
       /\ ColumnRenamed(last.pre, meta, last.names[2], last.names[1])
       /\ \A k \in Range(last.pre.hoKeys) :
             /\ k \in Range(meta.hoKeys)
             /\ ColumnRenamed(last.pre.ho[k], meta.ho[k],
                              last.names[2], last.names[1])

(* C15: while the flag mutable is false, assigning an ordinary instance
   attribute other than 'mutable' is rejected with AttributeError and leaves
   the object unchanged, whereas set(name, values) on table cells still
   succeeds. *)
C15_ImmutableRejectsAttributesNotCells ==
    /\ (/\ last.op = "setattr"
        /\ ~last.pre_mutable
        /\ last.names[1] \notin MetaProperties \cup {"mutable"})
       => /\ last.err = "AttributeError"
          /\ meta = last.pre
          /\ mutable = last.pre_mutable
          /\ custom = last.pre_custom
    /\ (/\ last.op = "set_str"
        /\ ~last.pre_mutable
        /\ ScalarDict(last.dict))
       => last.err = ""

\* the cell of variable name and attribute key, both in whatever letter
\* case, holds v
CellHolds(m, name, key, v) ==
    \E n \in Range(m.index), c \in Range(m.columns) :
        /\ Lower(n) = Lower(name)
        /\ Lower(c) = Lower(key)
        /\ m.data[n][c] = v

\* the cell of variable name and attribute key is the one of before, or
\* there is none as there was none before
CellKept(before, m, name, key) ==
    \A n \in Range(m.index), c \in Range(m.columns) :
        (Lower(n) = Lower(name) /\ Lower(c) = Lower(key))
        => /\ n \in Range(before.index)
           /\ c \in Range(before.columns)
           /\ m.data[n][c] = before.data[n][c]

(* C16: in set(name, values), a value that is a sequence of strings is
   stored as one string, the elements joined by a blank line; a value that
   is a sequence of non-strings is not stored and raises no error, and the
   other attributes of the same call are assigned. *)
C16_StringListsJoinedOthersDropped ==
    (/\ last.op = "set_str"
     /\ \A i \in 1..Len(last.dict) :
           last.dict[i].key \notin {"children", "meta"}
     /\ \E i \in 1..Len(last.dict) : last.dict[i].vals.kind = "list")
    => /\ last.err = ""
       /\ \A i \in 1..Len(last.dict) :
             LET e == last.dict[i]
             IN  IF e.vals.kind = "scalar"
                 THEN CellHolds(meta, last.names[1], e.key, e.vals.val)
                 ELSE IF e.vals.list[1][1] = "str"
                 THEN CellHolds(meta, last.names[1], e.key,
                                Str(e.vals.list[1][2] \o "\n\n"
                                    \o e.vals.list[2][2]))
                 ELSE Held(last.pre, last.names[1])
                      => CellKept(last.pre, meta, last.names[1], e.key)

\* the nested object stored for name, in whatever letter case, has the
\* table of c
AttachedAs(m, name, c) ==
    \E k \in Range(m.hoKeys) :
        /\ Lower(k) = Lower(name)
        /\ m.ho[k].index = c.index
        /\ m.ho[k].columns = c.columns
        /\ m.ho[k].data = c.data

\* the nested entry of name is the one of before, or there is none as
\* there was none before
NestedKept(before, m, name) ==
    \A k \in Range(m.hoKeys) :
        Lower(k) = Lower(name)
        => (k \in Range(before.hoKeys) /\ m.ho[k] = before.ho[k])

(* C17: in set(names, values) the labels 'children' and 'meta' behave
   alike: a call with 'children' ends as the same call with 'meta' does,
   and when the call returns, every entry that is not None is the nested
   object of the name at its position and a None entry attaches nothing. *)
C17_ChildrenAndMetaAlike ==
    (/\ last.op = "set"
     /\ Len(last.dict) = 1
     /\ last.dict[1].key \in {"children", "meta"}
     /\ Len(last.dict[1].vals) = Len(last.names)
     /\ \A i, j \in 1..Len(last.names) :
           i # j => Lower(last.names[i]) # Lower(last.names[j]))
    => /\ [err |-> last.err, m |-> meta]
            = SetDict(last.pre, last.names,
                      <<Entry("meta", last.dict[1].vals)>>)
       /\ last.err = ""
          => \A i \in 1..Len(last.names) :
                IF last.dict[1].vals[i].kind = "meta"
                THEN AttachedAs(meta, last.names[i],
                                last.dict[1].vals[i].meta[1])
                ELSE NestedKept(last.pre, meta, last.names[i])

(* C18: for every variable v the object holds, in whatever letter case v
   is written, set(v, get(v)) leaves the object as it was before the call,
   flat row and nested entry included. *)
C18_SetOfGetChangesNothing ==
    (last.op = "set_get" /\ Held(last.pre, last.names[1]))
    => meta = last.pre

\* a has the rows, columns, values and nested objects of b
SameTable(a, b) ==
    /\ a.index = b.index
    /\ a.columns = b.columns
    /\ a.data = b.data
    /\ a.hoKeys = b.hoKeys
    /\ a.ho = b.ho

(* C19, as the claim states it: apply_meta_labels(other) returns a copy of
   self whose label registry is the registry of other, and self is not
   modified. *)
C19_ReturnsSelfWithLabelsOfOther ==
    (last.op = "apply_meta_labels" /\ last.val = Bool(TRUE))
    => /\ last.err = ""
       /\ last.out # <<>>
       /\ SameTable(last.out[1], last.pre)
       /\ last.out[1].labels = last.arg[1].labels
       /\ meta = last.pre

(* C19, amended: apply_meta_labels(other) returns a copy of other whose
   label registry is the registry of self, when the flag mutable of other
   is true, and raises AttributeError when it is false; in both cases self
   is not modified. *)
C19_ReturnsOtherWithLabelsOfSelf ==
    last.op = "apply_meta_labels"
    => /\ meta = last.pre
       /\ mutable = last.pre_mutable
       /\ custom = last.pre_custom
       /\ IF last.val = Bool(TRUE)
          THEN /\ last.err = ""
               /\ last.out # <<>>
               /\ SameTable(last.out[1], last.arg[1])
               /\ last.out[1].labels = last.pre.labels
          ELSE /\ last.err = "AttributeError"
               /\ last.out = <<>>

\* the labels of self were applied to an other that has a variable self
\* has not and a label registry that is not the one of self
C19_Witness ==
    /\ last.op = "apply_meta_labels"
    /\ last.err = ""
    /\ last.arg[1].labels # last.pre.labels
    /\ last.arg[1].index # last.pre.index
    /\ last.out[1].labels = last.pre.labels
    /\ last.out[1].index = last.arg[1].index

\* the label registries an object is constructed with
LabelRegistries ==
    {MetaDefaultLabels, Append(MetaDefaultLabels, CustomIntLabel)}

(* C20: an object constructed empty has no row and exactly one column per
   label string of the label registry it is given, no more and no fewer. *)
C20_EmptyHasOneColumnPerLabel ==
    \A lbls \in LabelRegistries :
        (last.op = "none" /\ meta = MetaInit(lbls))
        => /\ meta.index = <<>>
           /\ Range(meta.columns) = {lbls[i][2] : i \in 1..Len(lbls)}
           /\ Len(meta.columns) = Len(lbls)

----------------------------------------------------------------------------
(* C21 *)

\* the attributes of the object that are not in its base attribute set and
\* have no leading underscore
CustomAttributes(cus) ==
    {a \in cus : a[1] \notin MetaBaseAttr /\ ~LeadingUnderscore(a[1])}

\* the call ended as the claim says for the attributes T: with the
\* collision error when strict mode is requested and the target has one of
\* their names, otherwise with every one of them on the target, the other
\* attributes of the target as they were
TransferredAs(T) ==
    LET inst == last.arg[1]
    IN  IF last.strict /\ \E a \in T : InDir(inst, a[1])
        THEN last.err = "RuntimeError"
        ELSE /\ last.err = ""
             /\ T \subseteq last.out[1].attrs
             /\ \A b \in inst.attrs :
                    (\A a \in T : a[1] # b[1]) => b \in last.out[1].attrs
             /\ \A b \in last.out[1].attrs : b \in T \/ b \in inst.attrs

----------------------------------------------------------------------------
(* C22 *)

\* C22: get((v, nv, a)) returns the value that v's nested container stores
\* for nested variable nv and attribute a, whatever letter case v, nv and a
\* are written in.
C22_NestedValueWhateverTheCase ==
    last.op = "get3" =>
        \A k \in Range(keys_nD(meta)) :
            Lower(k) = Lower(last.names[1]) =>
                \A n \in Range(meta.ho[k].index),
                   c \in Range(meta.ho[k].columns) :
                    (Lower(n) = Lower(last.names[2])
                     /\ Lower(c) = Lower(last.names[3]))
                    => /\ last.err = ""
                       /\ last.val = meta.ho[k].data[n][c]

----------------------------------------------------------------------------
(* C25 *)

\* C25: in every state reachable from an empty container by set, merge,
\* drop, keep and pop, every name that has a nested entry also has a flat
\* row stored under exactly the same casing.
C25_NestedEntriesHaveTheirRow ==
    \A k \in Range(keys_nD(meta)) : k \in Range(keys(meta))

----------------------------------------------------------------------------
(* C26 *)

\* no two distinct stored names of m are equal under str.lower
NoCaseTwins(m) ==
    \A a \in StoredNames(m), b \in StoredNames(m) :
        Lower(a) = Lower(b) => a = b

\* C26: in every state reachable from an empty container by set, merge,
\* drop, keep and pop, and in every container returned by concat, no two
\* distinct stored variable names (flat row names and nested-entry names
\* together) are equal when compared case-insensitively.
C26_NoTwoNamesEqualButForCase ==
    /\ NoCaseTwins(meta)
    /\ (last.op = "concat" /\ last.err = "") => NoCaseTwins(last.out[1])

----------------------------------------------------------------------------
(* C27 *)

\* C27: after pop(name) returns successfully, contains(name) is false: the
\* variable is left neither as a flat row nor as a nested entry, also when
\* it had both before the call.
C27_PoppedNameIsGone ==
    (last.op = "pop" /\ last.err = "") => ~contains(meta, last.names[1])

----------------------------------------------------------------------------
(* C28 *)

\* C28: when set(names, values) fails with the mismatched-count error, the
\* container is unchanged: its rows, columns and nested entries are the
\* same as before the call, and no row exists for a name that was new in
\* that call.
C28_RefusedSetLeavesNoTrace ==
    (last.op = "set" /\ last.err = "ValueError") =>
        /\ SameTable(meta, last.pre)
        /\ meta.hoKeys = last.pre.hoKeys /\ meta.ho = last.pre.ho
        /\ \A i \in 1..Len(last.names) :
               ~contains(last.pre, last.names[i])
               => last.names[i] \notin Range(keys(meta))

----------------------------------------------------------------------------
(* C23 *)

\* C23: settings store: after every completed mutation (item assignment,
\* restore_defaults, clear_and_restart) the settings file holds exactly the
\* whole in-memory data mapping, written under the exclusive lock.  A
\* mutation that has written the file and is about to return holds the
\* lock, and the file loads as its data.
C23_FileHoldsDataAfterEveryMutation ==
    \A p \in Procs :
        params[p].pc = "written" =>
            /\ file_lock = p
            /\ json_load(settings_file) = params[p].data

\* a restore_defaults has written the file while the other process, whose
\* data differ, waits for the lock with an item assigned
C23_Witness ==
    \E p \in Procs, q \in Procs :
        /\ params[p].pc = "written" /\ params[p].op = "restore_defaults"
        /\ params[q].pc = "lock" /\ params[q].op = "setitem"
        /\ params[q].data # params[p].data
        /\ "my_key" \in DOMAIN params[p].data

----------------------------------------------------------------------------
(* C24 *)

\* C24: Parameters.restore_defaults sets every key of defaults to its
\* default value and leaves every other key of data (custom user keys and
\* the parameters without a default) with the value it had before the call.
C24_RestoreDefaultsKeepsTheOtherKeys ==
    \A p \in Procs :
        params[p].op = "restore_defaults" =>
            /\ \A k \in DOMAIN defaults :
                   /\ k \in DOMAIN params[p].data
                   /\ params[p].data[k] = defaults[k]
            /\ \A k \in DOMAIN params[p].pre \ DOMAIN defaults :
                   /\ k \in DOMAIN params[p].data
                   /\ params[p].data[k] = params[p].pre[k]
            /\ DOMAIN params[p].data
                 = DOMAIN params[p].pre \cup DOMAIN defaults

\* a restore_defaults has returned on data that held a changed default, a
\* key of the user and the data directory
C24_Witness ==
    \E p \in Procs :
        /\ params[p].op = "restore_defaults"
        /\ params[p].pc = "done" /\ params[p].err = ""
        /\ {"clean_level", "my_key", "data_dir"} \subseteq DOMAIN params[p].pre
        /\ params[p].pre["clean_level"] = Str("dirty")
        /\ params[p].pre["data_dir"] = Str("/d")

----------------------------------------------------------------------------
(* C29 *)

\* C29: settings store shared by two processes: when two Parameters
\* instances loaded from the same file each assign a different key, in any
\* interleaving, the file afterwards holds both assigned keys; a write by
\* one process never removes a key that the other process has persisted.
C29_BothAssignmentsPersist ==
    (/\ \A p \in Procs : /\ params[p].pc = "done"
                         /\ params[p].op = "setitem"
                         /\ params[p].err = ""
     /\ params[1].key # params[2].key)
    => \A p \in Procs :
           /\ params[p].key \in DOMAIN settings_file
           /\ settings_file[params[p].key]
                = JsonOf(params[p].data[params[p].key])

----------------------------------------------------------------------------
(* C30 *)

\* C30: when a Parameters item assignment fails (the file lock is not
\* acquired within the timeout, or data has no 'file_timeout' key), the
\* in-memory data mapping is the same as before the call and therefore
\* still equals the last persisted file content.
C30_FailedAssignmentLeavesData ==
    \A p \in Procs :
        (/\ params[p].op = "setitem"
         /\ params[p].pc = "done"
         /\ params[p].err \in {"LockException", "KeyError"})
        => params[p].data = params[p].pre

====
